---- MODULE Spec2Model ----
(***************************************************************************)
(* Firmware resource of the Redfish Terraform provider: the update, read   *)
(* and delete handlers of resource_redfish_firmware.go, run against a      *)
(* device that serves a firmware inventory and accepts multipart uploads.  *)
(*                                                                         *)
(* Two revisions of the update handler are in the tree.  They differ only  *)
(* in how the upload is sent: one builds the multipart request by hand and *)
(* sends it with the plain HTTP client, then dumps the response to local   *)
(* files; the other hands the parts to the client's PostMultipart.  The    *)
(* variable impl says which revision a behaviour runs.  A third revision,  *)
(* whose update handler has no body yet, is left out.                      *)
(*                                                                         *)
(* A handler runs as a sequence of steps, one per call that leaves the     *)
(* process (a GET, an open, the POST); each step draws the outcome of its  *)
(* call and applies the handler's code up to the next call.  The frame of  *)
(* a handler keeps a log of the calls made, which the properties read.     *)
(***************************************************************************)
EXTENDS Integers, Sequences, FiniteSets, TLC

\* ------------------------------------------------------------------ bounds
MaxMembers == 2          \* members of the device's inventory at the start

\* ------------------------------------------------------------ value sets
Resources == {"r1", "r2"}             \* resource instances (one d each)
Solo      == {"r1"}                   \* the instance a single caller works on
Names     == {"BIOS", "NIC"}
Versions  == {"1.0", "2.0"}
Impls     == {"manual", "PostMultipart"}

NoId == 0                             \* the empty resource id ""
TaskURIs == {"", "/task/1"}           \* task references; "" is none

\* A nil *Firmware.
NoFirmware == [ODataID |-> NoId, Name |-> "", Version |-> ""]

\* type Firmware struct: the fields the handlers read.
Firmware(id, n, v) == [ODataID |-> id, Name |-> n, Version |-> v]

\* The local handles an invocation can hold.
LocalFiles == {"localFileReader", "sigFileReader", "response.status", "response.json"}
Handles    == LocalFiles \cup {"response.Body"}

\* The calls that go over the network.
NetworkCalls == {"GetFirmwareInventory", "GetFirmware", "UpdateService", "POST"}

VARIABLES
    impl,      \* revision of the update handler
    request,   \* the configuration: name, version, signature_file
    device,    \* the device's inventory: sequence of Firmware, member i has id i
    pending,   \* uploads the device accepted and has not applied yet
    serial,    \* the caller runs one handler at a time
    d,         \* per resource: the schema.ResourceData (id, version, task_uri,
               \* update_recovery_set)
    fr,        \* per resource: the running (or last) handler's locals and trace
    uploaded   \* some POST was answered with a success status

vars == <<serial, impl, request, device, pending, d, fr, uploaded>>

\* ------------------------------------------------------------ helpers
Min(S) == CHOOSE x \in S : \A y \in S : x <= y

Count(s, x) == Cardinality({i \in 1..Len(s) : s[i] = x})

Calls(log, c) == Cardinality({i \in 1..Len(log) : log[i].call = c})

NetCount(log) == Cardinality({i \in 1..Len(log) : log[i].call \in NetworkCalls})

Logged(f, c, ok) == [f EXCEPT !.log = Append(@, [call |-> c, ok |-> ok])]

\* The locals of a handler at its entry.
NewFrame(id) ==
    [ op        |-> "none",      \* the handler: update, read or delete
      pc        |-> "idle",      \* position in the handler
      settled   |-> FALSE,       \* at entry: an upload succeeded and the device reports the request
      afterUpload |-> FALSE,     \* at entry: the handler before was an update that matched no
                                 \* record and uploaded, and the device now has the name
      quiet     |-> FALSE,       \* at entry, with two callers: no other handler running
                                 \* and no upload pending
      updateRecoverySet |-> FALSE,   \* updateRecoverySet, ok := d.GetOk(UpdateRecoverySet)
      links     |-> <<>>,        \* inventory.firmwares
      failing   |-> {},          \* while resolving: the member links whose GET fails
      firmwares |-> <<>>,        \* result of inventory.Firmwares()
      firmware  |-> NoFirmware,  \* var firmware *Firmware
      update    |-> "unset",     \* update, _ := service.UpdateService()
      values    |-> {},          \* keys of the values map
      opened    |-> {},          \* handles opened
      closes    |-> [h \in Handles |-> 0],   \* Close calls per handle
      defers    |-> <<>>,        \* deferred Close calls
      log       |-> <<>>,        \* steps taken, in order
      sent      |-> <<>>,        \* one entry per POST: part name -> occurrences
      built     |-> "none",      \* how building the request went
      status    |-> "none",      \* how the POST was answered
      task      |-> "",          \* the task reference in the response, "" for none
      result    |-> "none",      \* what the handler returned
      versionAtStart |-> "",     \* d's version at entry
      idAtStart |-> id ]

\* ------------------------------------------------ the handlers' code
\* The deferred Close calls run when the handler returns.
RunDefers(closes, defers) == [h \in Handles |-> closes[h] + Count(defers, h)]

\* return from the handler with res.
Return(f, res) ==
    [f EXCEPT !.pc = "idle", !.result = res,
              !.closes = RunDefers(f.closes, f.defers), !.defers = <<>>]

\* localFileReader, err := os.Open(...); defer localFileReader.Close()
Opened(f, h) == [f EXCEPT !.opened = @ \cup {h}, !.defers = Append(@, h)]

\* As AfterGetFirmwareInventory, with the err != nil test left out.
InventoryErrorIgnored(f, ok, n) ==
    [f EXCEPT !.links = [i \in 1..n |-> i],
              !.pc = IF n = 0 THEN "gate" ELSE "Firmwares"]

\* GetFirmwareInventory returned; n members are listed.
AfterGetFirmwareInventory(f, ok, n) ==
    IF ~ok THEN Return(f, "error_inventory")
    ELSE [f EXCEPT !.links = [i \in 1..n |-> i],
                   !.pc = IF n = 0 THEN "gate" ELSE "Firmwares"]

\* One pass of the loop of FirmwareInventory.Firmwares(): the GET of the next
\* link answered with rec, or failed.
AfterGetFirmware(f, ok, rec) ==
    IF ~ok THEN [f EXCEPT !.pc = "gate"]          \* return result, nil
    ELSE [f EXCEPT !.firmwares = Append(@, rec),
                   !.pc = IF Len(f.firmwares) + 1 = Len(f.links)
                          THEN "gate" ELSE "Firmwares"]

\* As FirstMatch, with the break left out: the last record with the name.
RECURSIVE LastMatch(_, _)
LastMatch(firmwares, name) ==
    IF firmwares = <<>> THEN NoFirmware
    ELSE IF firmwares[Len(firmwares)].Name = name THEN firmwares[Len(firmwares)]
    ELSE LastMatch(SubSeq(firmwares, 1, Len(firmwares) - 1), name)

\* for _, f := range firmwares { if f.Name == name { firmware = f; break } }
RECURSIVE FirstMatch(_, _)
FirstMatch(firmwares, name) ==
    IF firmwares = <<>> THEN NoFirmware
    ELSE IF Head(firmwares).Name = name THEN Head(firmwares)
    ELSE FirstMatch(Tail(firmwares), name)

\* As NeedsUpdate, with the version never looked at.
NeedsUpdateIgnoresVersion(firmware, version) == TRUE

\* As NeedsUpdate, with the version test turned round.
NeedsUpdateInverted(firmware, version) ==
    firmware = NoFirmware \/ firmware.Version = version

\* if firmware == nil || firmware.Version != version
NeedsUpdate(firmware, version) ==
    firmware = NoFirmware \/ firmware.Version # version

\* As VersionGate, with a resource that has an id taken for up to date.
VersionGateTrustsId(f, name, version) ==
    LET fw == FirstMatch(f.firmwares, name)
    IN  [f EXCEPT !.firmware = fw,
                  !.pc = IF f.idAtStart = NoId /\ NeedsUpdate(fw, version)
                         THEN "UpdateService" ELSE "finish"]

\* As VersionGate, with the upload branch entered whatever the test says.
VersionGateAlwaysUploads(f, name, version) ==
    [f EXCEPT !.firmware = FirstMatch(f.firmwares, name), !.pc = "UpdateService"]

\* The name scan and the version test of the update handler.
VersionGate(f, name, version) ==
    LET fw == FirstMatch(f.firmwares, name)
    IN  [f EXCEPT !.firmware = fw,
                  !.pc = IF NeedsUpdate(fw, version) THEN "UpdateService" ELSE "finish"]

\* update, _ := service.UpdateService(): the error is dropped.
AfterUpdateService(f, ok) ==
    [f EXCEPT !.update = IF ok THEN "ok" ELSE "nil", !.pc = "GetSession"]

\* As AfterGetSession, with the err != nil test left out.
SessionErrorIgnored(f, ok) == [f EXCEPT !.pc = "OpenLocalFile"]

\* session, err := conn.GetSession()
AfterGetSession(f, ok) ==
    IF ~ok THEN Return(f, "error_session") ELSE [f EXCEPT !.pc = "OpenLocalFile"]

\* As SignatureSupplied, with the test left out.
SignatureAlways(signatureFile) == TRUE

\* if signatureFile != ""
SignatureSupplied(signatureFile) == signatureFile # ""

\* As AfterOpenLocalFile, with updateRecoverySet put in the values map.
RecoverySetSent(f, ok, signatureFile) ==
    IF ~ok THEN Return(f, "error_local_file")
    ELSE LET g == Opened(f, "localFileReader")
         IN  IF g.update = "nil" THEN Return(g, "panic")
             ELSE [g EXCEPT !.values = {"sessionKey", "parameters", "file"} \cup
                                (IF f.updateRecoverySet THEN {"updateRecoverySet"} ELSE {}),
                            !.pc = IF SignatureSupplied(signatureFile)
                                   THEN "OpenSignatureFile" ELSE "Multipart"]

\* As AfterOpenLocalFile, with the err != nil test left out.
OpenErrorIgnored(f, ok, signatureFile) ==
    IF f.update = "nil" THEN Return(f, "panic")
    ELSE [f EXCEPT !.values = {"sessionKey", "parameters", "file"},
                   !.pc = IF SignatureSupplied(signatureFile)
                          THEN "OpenSignatureFile" ELSE "Multipart"]

\* os.Open(localFile), update.HTTPPushURI (a nil update panics; the deferred
\* Close still runs), and the values map.
AfterOpenLocalFile(f, ok, signatureFile) ==
    IF ~ok THEN Return(f, "error_local_file")
    ELSE LET g == Opened(f, "localFileReader")
         IN  IF g.update = "nil" THEN Return(g, "panic")
             ELSE [g EXCEPT !.values = {"sessionKey", "parameters", "file"},
                            !.pc = IF SignatureSupplied(signatureFile)
                                   THEN "OpenSignatureFile" ELSE "Multipart"]

\* As AfterOpenSignatureFile, with the err != nil test left out.
SignatureErrorIgnored(f, ok) ==
    [f EXCEPT !.values = @ \cup {"compsig"}, !.pc = "Multipart"]

\* os.Open(signatureFile); values["compsig"] = sigFileReader
AfterOpenSignatureFile(f, ok) ==
    IF ~ok THEN Return(f, "error_signature_file")
    ELSE [Opened(f, "sigFileReader") EXCEPT !.values = @ \cup {"compsig"},
                                            !.pc = "Multipart"]

\* The multipart body: one part per key of values.
Body(values) == [k \in values |-> 1]

\* Building the request.  By hand: a part that cannot be written, or a request
\* that cannot be created, returns an error.  PostMultipart builds the body
\* itself and returns its error as the error of the post.
AfterMultipart(f, built, rev) ==
    IF built = "ok" THEN [f EXCEPT !.pc = "POST"]
    ELSE IF rev = "manual"
         THEN Return(f, IF built = "part" THEN "error_multipart" ELSE "error_request")
         ELSE Return(f, "error_post")

\* Is the answer to the POST an error for the handler?  The plain HTTP client
\* reports only a failed exchange; PostMultipart also reports a status that
\* is not a success.
PostFailed(answer, rev) ==
    IF rev = "manual" THEN answer = "transport" ELSE answer # "2xx"

\* dump / dumpReader: os.Create(filename); the file is used and closed only
\* under err != nil, where there is no file.
Dumped(f, h, created) == IF created THEN [f EXCEPT !.opened = @ \cup {h}] ELSE f

\* As AfterPost, with a failed POST sent again.
AfterPostRetries(f, answer, rev, c1, c2) ==
    IF PostFailed(answer, rev) THEN [f EXCEPT !.pc = "POST"]
    ELSE LET g == Opened(f, "response.Body")
             h == IF rev = "manual"
                  THEN Dumped(Dumped(g, "response.status", c1), "response.json", c2)
                  ELSE g
         IN  [h EXCEPT !.pc = "finish"]

\* As AfterPost, with a response that names no task taken for an error.
AfterPostNeedsTask(f, answer, rev, c1, c2) ==
    IF PostFailed(answer, rev) THEN Return(f, "error_post")
    ELSE LET g == Opened(f, "response.Body")
             h == IF rev = "manual"
                  THEN Dumped(Dumped(g, "response.status", c1), "response.json", c2)
                  ELSE g
         IN  IF f.task = "" THEN Return(h, "error_task") ELSE [h EXCEPT !.pc = "finish"]

\* The POST was answered.
AfterPost(f, answer, rev, c1, c2) ==
    IF PostFailed(answer, rev) THEN Return(f, "error_post")
    ELSE LET g == Opened(f, "response.Body")
             h == IF rev = "manual"
                  THEN Dumped(Dumped(g, "response.status", c1), "response.json", c2)
                  ELSE g
         IN  [h EXCEPT !.pc = "finish"]

\* As RecordedId, with the nil test left out: a nil firmware gives the empty id.
RecordedIdUnconditional(firmware, id) == firmware.ODataID

\* if firmware != nil { d.SetId(firmware.ODataID) }
RecordedId(firmware, id) ==
    IF firmware # NoFirmware THEN firmware.ODataID ELSE id

\* As AfterRead, with the d.Set(Version, ...) left out.
ReadSetsIdOnly(dr, firmware) ==
    IF firmware = NoFirmware THEN dr ELSE [dr EXCEPT !.id = firmware.ODataID]

\* As AfterRead, with the id cleared when no record has the name.
ReadClearsWhenMissing(dr, firmware) ==
    IF firmware = NoFirmware THEN [dr EXCEPT !.id = NoId]
    ELSE [dr EXCEPT !.version = firmware.Version, !.id = firmware.ODataID]

\* The read handler's writes to d: nothing when no record has the name, else
\* d.Set(Version, firmware.Version); d.SetId(firmware.ODataID)
AfterRead(dr, firmware) ==
    IF firmware = NoFirmware THEN dr
    ELSE [dr EXCEPT !.version = firmware.Version, !.id = firmware.ODataID]

\* As DeletedId, with the SetId left out.
DeletedIdKept(id) == id

\* The delete handler: d.SetId("")
DeletedId(id) == NoId

\* ------------------------------------------------------------ the device
\* Index of the first member with the name, 0 when there is none.
FirstIndex(inv, name) ==
    LET I == {i \in 1..Len(inv) : inv[i].Name = name}
    IN  IF I = {} THEN 0 ELSE Min(I)

\* The device reports the requested version for the requested name.
DeviceReports(inv, req) ==
    /\ FirstIndex(inv, req.name) # 0
    /\ inv[FirstIndex(inv, req.name)].Version = req.version

\* The inventory after the device has applied the upload u.
Applied(inv, u) ==
    LET i == FirstIndex(inv, u.name)
    IN  IF i # 0 THEN [inv EXCEPT ![i].Version = u.version]
        ELSE Append(inv, Firmware(Len(inv) + 1, u.name, u.version))

Inventories ==
    UNION { { [i \in 1..n |-> Firmware(i, nv[i][1], nv[i][2])] :
                nv \in [1..n -> Names \X Versions] } : n \in 0..MaxMembers }

\* The names are interchangeable, the device has records of both: the
\* request asks for one of them.
Requests == [name : {"BIOS"}, version : Versions, signature_file : {"", "fw.sig"}]

\* ------------------------------------------------------------ the actions
\* The ResourceData of a resource: the id, the stored version, the task_uri
\* and the update_recovery_set of the configuration.
Data(id, version, uri, recovery) ==
    [id |-> id, version |-> version, task_uri |-> uri, update_recovery_set |-> recovery]

\* One resource, not created yet; its state may carry a task_uri.
Init ==
    /\ serial = TRUE
    /\ impl \in Impls
    /\ request \in Requests
    /\ device \in Inventories
    /\ pending = {}
    /\ \E t \in TaskURIs :
         d = [r \in Resources |->
                 Data(NoId, request.version, IF r \in Solo THEN t ELSE "", FALSE)]
    /\ fr = [r \in Resources |-> NewFrame(NoId)]
    /\ uploaded = FALSE

\* The caller runs one handler at a time.
Serialized(r) == \A q \in Resources \ {r} : fr[q].pc = "idle"

\* The frame of handler o entered on resource r.
Entered(r, o) ==
    [NewFrame(d[r].id) EXCEPT
        !.op = o, !.pc = "GetFirmwareInventory",
        !.versionAtStart = d[r].version,
        !.settled = uploaded /\ DeviceReports(device, request),
        !.afterUpload = /\ o = "read"
                        /\ fr[r].op = "update" /\ fr[r].result = "ok"
                        /\ fr[r].status = "2xx"
                        /\ FirstIndex(fr[r].firmwares, request.name) = 0
                        /\ FirstIndex(device, request.name) # 0]

Begin(r, o) ==
    /\ fr[r].pc = "idle"
    /\ fr' = [fr EXCEPT ![r] = Entered(r, o)]
    /\ UNCHANGED <<serial, impl, request, device, pending, d, uploaded>>

UpdateBegin(r) == Begin(r, "update")

ReadBegin(r) == Begin(r, "read")

\* inventory, err := GetFirmwareInventory(conn), and in the update handler
\* the d.Set(TaskURI, "") that follows.  The member links whose GET will fail
\* during this invocation are fixed here.
GetFirmwareInventory(r) ==
    /\ fr[r].pc = "GetFirmwareInventory"
    /\ \E ok \in BOOLEAN, bad \in SUBSET (1..Len(device)) :
         /\ ~ok => bad = {}
         /\ fr' = [fr EXCEPT ![r] = AfterGetFirmwareInventory(
                       [Logged(fr[r], "GetFirmwareInventory", ok) EXCEPT
                            !.failing = bad,
                            !.updateRecoverySet = ok /\ d[r].update_recovery_set],
                       ok, Len(device))]
         /\ d' = IF ok /\ fr[r].op = "update"
                 THEN [d EXCEPT ![r].task_uri = ""] ELSE d
    /\ UNCHANGED <<serial, impl, request, device, pending, uploaded>>

\* firmware, err := GetFirmware(firmware.Client, firmwareLink)
GetFirmware(r) ==
    /\ fr[r].pc = "Firmwares"
    /\ LET link == fr[r].links[Len(fr[r].firmwares) + 1]
           ok   == link \notin fr[r].failing
       IN  fr' = [fr EXCEPT ![r] = AfterGetFirmware(
                      Logged(fr[r], "GetFirmware", ok), ok, device[link])]
    /\ UNCHANGED <<serial, impl, request, device, pending, d, uploaded>>

UpdateGate(r) ==
    /\ fr[r].pc = "gate" /\ fr[r].op = "update"
    /\ fr' = [fr EXCEPT ![r] = VersionGate(
                  [Logged(fr[r], "VersionGate", TRUE) EXCEPT !.failing = {}],
                  request.name, request.version)]
    /\ UNCHANGED <<serial, impl, request, device, pending, d, uploaded>>

UpdateService(r) ==
    /\ fr[r].pc = "UpdateService"
    /\ \E ok \in BOOLEAN :
         fr' = [fr EXCEPT ![r] = AfterUpdateService(Logged(fr[r], "UpdateService", ok), ok)]
    /\ UNCHANGED <<serial, impl, request, device, pending, d, uploaded>>

GetSession(r) ==
    /\ fr[r].pc = "GetSession"
    /\ \E ok \in BOOLEAN :
         fr' = [fr EXCEPT ![r] = AfterGetSession(Logged(fr[r], "GetSession", ok), ok)]
    /\ UNCHANGED <<serial, impl, request, device, pending, d, uploaded>>

OpenLocalFile(r) ==
    /\ fr[r].pc = "OpenLocalFile"
    /\ \E ok \in BOOLEAN :
         fr' = [fr EXCEPT ![r] = AfterOpenLocalFile(Logged(fr[r], "OpenLocalFile", ok),
                                                    ok, request.signature_file)]
    /\ UNCHANGED <<serial, impl, request, device, pending, d, uploaded>>

OpenSignatureFile(r) ==
    /\ fr[r].pc = "OpenSignatureFile"
    /\ \E ok \in BOOLEAN :
         fr' = [fr EXCEPT ![r] = AfterOpenSignatureFile(
                     Logged(fr[r], "OpenSignatureFile", ok), ok)]
    /\ UNCHANGED <<serial, impl, request, device, pending, d, uploaded>>

Multipart(r) ==
    /\ fr[r].pc = "Multipart"
    /\ \E built \in (IF impl = "manual" THEN {"ok", "part", "request"} ELSE {"ok", "part"}) :
         fr' = [fr EXCEPT ![r] = AfterMultipart(
                     [Logged(fr[r], "Multipart", built = "ok") EXCEPT !.built = built],
                     built, impl)]
    /\ UNCHANGED <<serial, impl, request, device, pending, d, uploaded>>

\* The POST to the push URI.  A success status means the device took the
\* image; it applies it later.
Post(r) ==
    /\ fr[r].pc = "POST"
    /\ \E answer \in {"transport", "2xx", "5xx"},
          c1 \in (IF impl = "manual" THEN BOOLEAN ELSE {FALSE}),
          c2 \in (IF impl = "manual" THEN BOOLEAN ELSE {FALSE}),
          task \in TaskURIs :
         /\ answer = "transport" => ~c1 /\ ~c2
         /\ answer # "2xx" => task = ""
         /\ fr' = [fr EXCEPT ![r] = AfterPost(
                       [Logged(fr[r], "POST", answer = "2xx") EXCEPT
                            !.sent = Append(@, Body(fr[r].values)),
                            !.status = answer, !.task = task],
                       answer, impl, c1, c2)]
         /\ pending' = IF answer = "2xx"
                       THEN pending \cup {[name |-> request.name,
                                           version |-> request.version, by |-> r]}
                       ELSE pending
         /\ uploaded' = (uploaded \/ answer = "2xx")
    /\ UNCHANGED <<serial, impl, request, device, d>>

\* The end of the update handler: the id, and the successful return.
UpdateFinish(r) ==
    /\ fr[r].pc = "finish"
    /\ d' = [d EXCEPT ![r].id = RecordedId(fr[r].firmware, d[r].id)]
    /\ fr' = [fr EXCEPT ![r] = Return(Logged(fr[r], "SetId", fr[r].firmware # NoFirmware), "ok")]
    /\ UNCHANGED <<serial, impl, request, device, pending, uploaded>>

\* The read handler after the members are resolved.
ReadFinish(r) ==
    /\ fr[r].pc = "gate" /\ fr[r].op = "read"
    /\ LET fw == FirstMatch(fr[r].firmwares, request.name)
       IN  /\ d' = [d EXCEPT ![r] = AfterRead(d[r], fw)]
           /\ fr' = [fr EXCEPT ![r] = Return([fr[r] EXCEPT !.firmware = fw, !.failing = {}], "ok")]
    /\ UNCHANGED <<serial, impl, request, device, pending, uploaded>>

\* The delete handler.
Delete(r) ==
    /\ fr[r].pc = "idle"
    /\ d' = [d EXCEPT ![r].id = DeletedId(d[r].id)]
    /\ fr' = [fr EXCEPT ![r] = Return([NewFrame(d[r].id) EXCEPT
                                          !.op = "delete",
                                          !.versionAtStart = d[r].version], "ok")]
    /\ UNCHANGED <<serial, impl, request, device, pending, uploaded>>

\* The device applies an upload it accepted.
DeviceApply ==
    /\ \E u \in pending :
         /\ FirstIndex(device, u.name) # 0 \/ Len(device) < MaxMembers
         /\ device' = Applied(device, u)
         /\ pending' = pending \ {u}
    /\ UNCHANGED <<serial, impl, request, d, fr, uploaded>>

Next ==
    \/ \E r \in Solo : Serialized(r) /\ UpdateBegin(r)
    \/ \E r \in Solo : Serialized(r) /\ ReadBegin(r)
    \/ \E r \in Solo : Serialized(r) /\ Delete(r)
    \/ \E r \in Solo : GetFirmwareInventory(r)
    \/ \E r \in Solo : GetFirmware(r)
    \/ \E r \in Solo : UpdateGate(r)
    \/ \E r \in Solo : UpdateService(r)
    \/ \E r \in Solo : GetSession(r)
    \/ \E r \in Solo : OpenLocalFile(r)
    \/ \E r \in Solo : OpenSignatureFile(r)
    \/ \E r \in Solo : Multipart(r)
    \/ \E r \in Solo : Post(r)
    \/ \E r \in Solo : UpdateFinish(r)
    \/ \E r \in Solo : ReadFinish(r)
    \/ DeviceApply

Spec == Init /\ [][Next]_vars

\* ------------------------------------------------------- two invocations
\* Two resources configured with the same request against the same device,
\* one update invocation each; the caller serializes them (serial) or not.
\* The second resource may carry the id, the task_uri and the
\* update_recovery_set of earlier invocations.
PairInventories == {inv \in Inventories : Len(inv) <= 1}

PairRequests == {q \in Requests : q.version = "2.0"}

\* What the second resource holds at entry: the id and the task_uri an
\* earlier invocation left, or update_recovery_set set in the configuration.
Left(version) ==
    {Data(1, version, "/task/1", FALSE), Data(NoId, version, "", TRUE)}

PairInit ==
    /\ serial \in BOOLEAN
    /\ impl \in Impls
    /\ request \in PairRequests
    /\ device \in PairInventories
    /\ pending = {}
    /\ \E left \in Left(request.version) :
         d = [r \in Resources |->
                 IF r \in Solo THEN Data(NoId, request.version, "", FALSE) ELSE left]
    /\ fr = [r \in Resources |-> NewFrame(NoId)]
    /\ uploaded = FALSE

\* The update handler is entered on a resource that has not run yet.
PairBegin(r) ==
    /\ fr[r].op = "none"
    /\ serial => Serialized(r)
    /\ fr' = [fr EXCEPT ![r] = [Entered(r, "update") EXCEPT
                                   !.quiet = Serialized(r) /\ pending = {}]]
    /\ UNCHANGED <<serial, impl, request, device, pending, d, uploaded>>

PairNext ==
    \/ \E r \in Resources : PairBegin(r)
    \/ \E r \in Resources : GetFirmwareInventory(r)
    \/ \E r \in Resources : GetFirmware(r)
    \/ \E r \in Resources : UpdateGate(r)
    \/ \E r \in Resources : UpdateService(r)
    \/ \E r \in Resources : GetSession(r)
    \/ \E r \in Resources : OpenLocalFile(r)
    \/ \E r \in Resources : OpenSignatureFile(r)
    \/ \E r \in Resources : Multipart(r)
    \/ \E r \in Resources : Post(r)
    \/ \E r \in Resources : UpdateFinish(r)
    \/ DeviceApply

SpecPair == PairInit /\ [][PairNext]_vars

\* ------------------------------------------------------------ the claims
\* What the formulas read off an invocation.
Gated(r)    == Calls(fr[r].log, "VersionGate") = 1
Posts(r)    == Calls(fr[r].log, "POST")
Returned(r) == fr[r].pc = "idle" /\ fr[r].result # "none"
Updating(r) == fr[r].op = "update"

\* The first resolved record with the requested name (0: none).
Match(r) == FirstIndex(fr[r].firmwares, request.name)

\* That record exists and has the requested version.
MatchHasVersion(r) ==
    Match(r) # 0 /\ fr[r].firmwares[Match(r)].Version = request.version

\* The upload branch was entered.
UploadAttempted(r) ==
    fr[r].pc = "UpdateService" \/ Calls(fr[r].log, "UpdateService") > 0

\* The ids of a sequence of records.
Ids(fs) == [i \in 1..Len(fs) |-> fs[i].ODataID]

\* The call at position i of the log is one of cs.
IsCall(r, i, cs) == fr[r].log[i].call \in cs

\* C1: an update invocation whose first resolved record with the requested
\* name has the requested version issues no POST, opens no local file, and
\* returns successfully with that record's identifier as the resource id.
C1_SkipIssuesNoPost ==
    \A r \in Resources :
        (Updating(r) /\ Gated(r) /\ MatchHasVersion(r)) =>
            /\ Posts(r) = 0 /\ fr[r].sent = <<>>
            /\ fr[r].opened = {}
            /\ fr[r].pc \in {"finish", "idle"}
            /\ Returned(r) => /\ fr[r].result = "ok"
                              /\ d[r].id = fr[r].firmwares[Match(r)].ODataID

C1_Witness ==
    \E r \in Resources :
        /\ Updating(r) /\ Returned(r) /\ MatchHasVersion(r)
        /\ fr[r].result = "ok" /\ d[r].id # NoId

\* C2: the gate selects the first resolved record with the requested name,
\* whatever follows it, and the upload branch is entered exactly when there
\* is no such record or its version differs from the requested one.
C2_FirstMatchDecides ==
    \A r \in Resources :
        (Updating(r) /\ Gated(r)) =>
            /\ fr[r].firmware = IF Match(r) = 0 THEN NoFirmware
                                ELSE fr[r].firmwares[Match(r)]
            /\ UploadAttempted(r) <=> ~MatchHasVersion(r)

C2_Witness ==
    \E r \in Resources :
        /\ Updating(r) /\ Gated(r) /\ MatchHasVersion(r)
        /\ \E j \in 1..Len(fr[r].firmwares) :
               /\ j > Match(r)
               /\ fr[r].firmwares[j].Name = request.name
               /\ fr[r].firmwares[j].Version # request.version

C4_Original ==
    \A r \in Resources :
        fr[r].pc = "gate" =>
            LET Resolves(l) == l \notin fr[r].failing
            IN  Ids(fr[r].firmwares) = SelectSeq(fr[r].links, Resolves)

\* C5: when the fetch of the inventory collection fails, the update handler
\* has returned an error and done nothing else: no member resolved, no gate,
\* no file opened, no POST, the resource id as it was.
C5_FetchFailureIsFatal ==
    \A r \in Resources :
        (Updating(r) /\ fr[r].log # <<>> /\ ~fr[r].log[1].ok) =>
            /\ Returned(r) /\ fr[r].result = "error_inventory"
            /\ Len(fr[r].log) = 1
            /\ fr[r].firmwares = <<>> /\ fr[r].firmware = NoFirmware
            /\ fr[r].opened = {} /\ fr[r].sent = <<>>
            /\ d[r].id = fr[r].idAtStart

C5_Witness ==
    \E r \in Resources :
        /\ Updating(r) /\ Returned(r) /\ fr[r].result = "error_inventory"
        /\ fr[r].idAtStart # NoId /\ Len(device) > 0

\* The open of the image file was tried and failed.
ImageOpenFailed(r) ==
    \E i \in 1..Len(fr[r].log) :
        fr[r].log[i].call = "OpenLocalFile" /\ ~fr[r].log[i].ok

\* C6 as stated: an update invocation whose image file cannot be opened has
\* failed with the local file error and has issued no network call.
C6_Original ==
    \A r \in Resources :
        (Updating(r) /\ ImageOpenFailed(r)) =>
            /\ Returned(r) /\ fr[r].result = "error_local_file"
            /\ NetCount(fr[r].log) = 0

\* C6 as amended: an update invocation that tries to open the image file and
\* cannot has failed with the local file error at that step and has issued no
\* POST; the only network calls it made are the GETs of the inventory, of its
\* members and of the update service, all before the open.
C6_OpenFailureBeforePost ==
    \A r \in Resources :
        (Updating(r) /\ ImageOpenFailed(r)) =>
            /\ Returned(r) /\ fr[r].result = "error_local_file"
            /\ Posts(r) = 0 /\ fr[r].sent = <<>>
            /\ fr[r].log[Len(fr[r].log)].call = "OpenLocalFile"
            /\ fr[r].opened = {}

C6_Witness ==
    \E r \in Resources :
        /\ Updating(r) /\ Returned(r) /\ ImageOpenFailed(r)
        /\ NetCount(fr[r].log) >= 3

\* C7 as stated: when the update handler has returned, every local file
\* handle it opened has been closed exactly once.
C7_Original ==
    \A r \in Resources :
        (Updating(r) /\ Returned(r)) =>
            \A h \in fr[r].opened \cap LocalFiles : fr[r].closes[h] = 1

\* The parts the body must have for a signature path.
ExpectedParts(signatureFile) ==
    {"sessionKey", "parameters", "file"}
        \cup (IF signatureFile = "" THEN {} ELSE {"compsig"})

\* C8: every POST carries each of sessionKey, parameters and file once, and
\* compsig once exactly when a signature path is supplied, and nothing else.
C8_BodyParts ==
    \A r \in Resources :
        \A i \in 1..Len(fr[r].sent) :
            /\ DOMAIN fr[r].sent[i] = ExpectedParts(request.signature_file)
            /\ \A k \in DOMAIN fr[r].sent[i] : fr[r].sent[i][k] = 1

C8_Witness ==
    \E r \in Resources :
        /\ Len(fr[r].sent) = 1
        /\ request.signature_file # ""
        /\ "compsig" \in DOMAIN fr[r].sent[1]

\* C9 as stated: when the POST fails in transport or is answered with a
\* status that is not a success, the update handler has returned the post
\* error and the resource id is as it was.
C9_Original ==
    \A r \in Resources :
        (Updating(r) /\ fr[r].status \in {"transport", "5xx"}) =>
            /\ Returned(r) /\ fr[r].result = "error_post"
            /\ d[r].id = fr[r].idAtStart

\* The invocation posted, the device answered with a success status, and the
\* handler returned successfully.
UploadedOk(r) ==
    Updating(r) /\ Returned(r) /\ fr[r].result = "ok" /\ fr[r].status = "2xx"

\* No inventory or member GET follows the POST in the log.
NoFetchAfterPost(r) ==
    \A i, j \in 1..Len(fr[r].log) :
        (IsCall(r, i, {"POST"}) /\ j > i) =>
            ~IsCall(r, j, {"GetFirmwareInventory", "GetFirmware"})

\* C10 as stated: after a successful upload the resource id is the id of the
\* record matched before the upload, and empty when none matched; nothing is
\* fetched after the POST.
C10_Original ==
    \A r \in Resources :
        UploadedOk(r) =>
            /\ d[r].id = IF Match(r) # 0 THEN fr[r].firmwares[Match(r)].ODataID
                         ELSE NoId
            /\ NoFetchAfterPost(r)

\* C10 as amended: after a successful upload the resource id is the id of the
\* record matched before the upload, and what it was when the invocation
\* began (empty for a resource being created) when none matched; nothing is
\* fetched after the POST.
C10_IdAfterUpload ==
    \A r \in Resources :
        UploadedOk(r) =>
            /\ d[r].id = IF Match(r) # 0 THEN fr[r].firmwares[Match(r)].ODataID
                         ELSE fr[r].idAtStart
            /\ NoFetchAfterPost(r)
            /\ Calls(fr[r].log, "GetFirmwareInventory") = 1

C10_Witness ==
    \E r \in Resources :
        /\ UploadedOk(r) /\ Match(r) = 0
        /\ fr[r].idAtStart # NoId /\ d[r].id = fr[r].idAtStart


Reading(r)  == fr[r].op = "read"

\* Every member listed was resolved.
ResolvedAll(r) == Len(fr[r].firmwares) = Len(fr[r].links)

\* The read's case of C11 and what the claim says of it: the id is that of
\* the device's first record with the name, the stored version the one the
\* read got for it.
ReadRecordsDevice(r) ==
    /\ fr[r].result = "ok"
    /\ Match(r) # 0
    /\ d[r].id = device[FirstIndex(device, request.name)].ODataID
    /\ d[r].version = fr[r].firmwares[Match(r)].Version

C12_NoRetry ==
    \A r \in Resources :
        Updating(r) =>
            /\ Posts(r) <= 1 /\ Len(fr[r].sent) <= 1
            /\ Calls(fr[r].log, "GetFirmwareInventory") <= 1

C12_Witness ==
    \E r \in Resources :
        /\ Updating(r) /\ Returned(r) /\ fr[r].result = "error_post"
        /\ Posts(r) = 1 /\ Calls(fr[r].log, "GetFirmwareInventory") = 1

\* C15: an upload answered with a success status and no task reference ends
\* in success with an empty task_uri, and task_uri is empty after every
\* invocation that skipped.
C15_NoTaskIsNoError ==
    \A r \in Resources :
        (Updating(r) /\ Returned(r)) =>
            /\ (fr[r].status = "2xx" /\ fr[r].task = "") =>
                   (fr[r].result = "ok" /\ d[r].task_uri = "")
            /\ (fr[r].result = "ok" /\ Posts(r) = 0) => d[r].task_uri = ""

C15_Witness ==
    \E r \in Resources :
        /\ Updating(r) /\ Returned(r)
        /\ fr[r].status = "2xx" /\ fr[r].task = "" /\ fr[r].result = "ok"

\* The place of a step in the update handler.
StepRank(call) ==
    CASE call = "GetFirmwareInventory" -> 1
      [] call = "GetFirmware"          -> 2
      [] call = "VersionGate"          -> 3
      [] call = "UpdateService"        -> 4
      [] call = "GetSession"           -> 5
      [] call = "OpenLocalFile"        -> 6
      [] call = "OpenSignatureFile"    -> 7
      [] call = "Multipart"            -> 8
      [] call = "POST"                 -> 9
      [] call = "SetId"                -> 10

\* The steps of the log are in the handler's order; only member resolutions
\* repeat.
InOrder(log) ==
    \A i \in 1..(Len(log) - 1) :
        \/ StepRank(log[i].call) < StepRank(log[i + 1].call)
        \/ log[i].call = "GetFirmware" /\ log[i + 1].call = "GetFirmware"

\* Step c was taken, and succeeded, before position k of the log.
DoneBefore(log, c, k) ==
    \E i \in 1..(k - 1) : log[i].call = c /\ log[i].ok

\* Step c was taken and failed.
Failed(r, c) ==
    \E i \in 1..Len(fr[r].log) : fr[r].log[i].call = c /\ ~fr[r].log[i].ok

\* The steps a POST at position k needs before it.
PostPrepared(r, k) ==
    /\ \A c \in {"GetFirmwareInventory", "VersionGate", "UpdateService",
                 "GetSession", "OpenLocalFile", "Multipart"} :
           DoneBefore(fr[r].log, c, k)
    /\ request.signature_file # "" => DoneBefore(fr[r].log, "OpenSignatureFile", k)

\* The order of the steps, the signature opened only when supplied, and the
\* failures of the session, the image and the signature fatal before a POST.
OrderAndFatalSteps(r) ==
    /\ InOrder(fr[r].log)
    /\ Calls(fr[r].log, "OpenSignatureFile") > 0 => request.signature_file # ""
    /\ \A c \in {"GetSession", "OpenLocalFile", "OpenSignatureFile"} :
           Failed(r, c) => /\ Returned(r) /\ fr[r].result # "ok"
                           /\ Posts(r) = 0

\* C17 as stated: the steps are in the fixed order, and a POST is issued only
\* after every step before it succeeded, the member resolutions included.
C17_Original ==
    \A r \in Resources :
        Updating(r) =>
            /\ OrderAndFatalSteps(r)
            /\ \A k \in 1..Len(fr[r].log) :
                   fr[r].log[k].call = "POST" =>
                       \A i \in 1..(k - 1) : fr[r].log[i].ok

\* C17 as amended: the steps are in the fixed order (the lookup of the update
\* service comes between the gate and the session token); a POST is issued
\* only after the inventory fetch, the gate, the lookup, the session token,
\* the image open, the signature open when supplied, and the building of the
\* request succeeded; a failed member resolution does not prevent it.
C17_StepOrder ==
    \A r \in Resources :
        Updating(r) =>
            /\ OrderAndFatalSteps(r)
            /\ \A k \in 1..Len(fr[r].log) :
                   fr[r].log[k].call = "POST" => PostPrepared(r, k)

C17_Witness ==
    \E r \in Resources :
        /\ Updating(r) /\ Returned(r) /\ fr[r].result = "ok"
        /\ Posts(r) = 1 /\ request.signature_file # ""
        /\ Failed(r, "GetFirmware")
        /\ fr[r].log[Len(fr[r].log)].call = "SetId"

\* Some step whose failure the handler must return failed.
StepFailed(r) ==
    \/ \E c \in {"GetFirmwareInventory", "GetSession", "OpenLocalFile",
                 "OpenSignatureFile", "Multipart"} : Failed(r, c)
    \/ fr[r].status = "transport"

\* C18: an update invocation in which the inventory fetch, the session
\* token, an open, the building of the request or the POST failed returns an
\* error, and whenever the update returns an error the resource id is what
\* it was at entry: the id changes only on a successful return.
C18_ErrorKeepsId ==
    \A r \in Resources :
        Updating(r) =>
            /\ ~Returned(r) => d[r].id = fr[r].idAtStart
            /\ (Returned(r) /\ StepFailed(r)) => fr[r].result # "ok"
            /\ (Returned(r) /\ fr[r].result # "ok") => d[r].id = fr[r].idAtStart

C18_Witness ==
    \E r \in Resources :
        /\ Updating(r) /\ Returned(r) /\ fr[r].result = "error_signature_file"
        /\ fr[r].firmware # NoFirmware
        /\ fr[r].firmware.ODataID # fr[r].idAtStart

\* C19: the read handler makes only GETs, opens no file and posts nothing;
\* when no resolved record has the name it succeeds with the id and the
\* stored version as they were, and when the inventory fetch fails it
\* returns the error with both as they were.
C19_ReadFrame ==
    \A r \in Resources :
        Reading(r) =>
            /\ \A i \in 1..Len(fr[r].log) :
                   IsCall(r, i, {"GetFirmwareInventory", "GetFirmware"})
            /\ fr[r].opened = {} /\ fr[r].sent = <<>>
            /\ (Returned(r) /\ fr[r].log[1].ok /\ Match(r) = 0) =>
                   /\ fr[r].result = "ok"
                   /\ d[r].id = fr[r].idAtStart
                   /\ d[r].version = fr[r].versionAtStart
            /\ (fr[r].log # <<>> /\ ~fr[r].log[1].ok) =>
                   /\ Returned(r) /\ fr[r].result = "error_inventory"
                   /\ d[r].id = fr[r].idAtStart
                   /\ d[r].version = fr[r].versionAtStart

C19_Witness ==
    \E r \in Resources :
        /\ Reading(r) /\ Returned(r) /\ fr[r].result = "ok"
        /\ Match(r) = 0 /\ fr[r].idAtStart # NoId

\* C20: a step of the delete handler returns success with the id empty,
\* makes no call, and leaves the device (its inventory and the uploads it
\* holds) and the stored version as they were.
C20_DeleteFrame ==
    [][\A r \in Resources :
          (fr'[r] # fr[r] /\ fr'[r].op = "delete") =>
              /\ fr'[r].pc = "idle" /\ fr'[r].result = "ok"
              /\ d'[r].id = NoId
              /\ fr'[r].log = <<>> /\ fr'[r].sent = <<>>
              /\ device' = device /\ pending' = pending
              /\ d'[r].version = d[r].version]_vars

C20_Witness ==
    \E r \in Resources :
        /\ fr[r].op = "delete" /\ fr[r].result = "ok"
        /\ fr[r].idAtStart # NoId /\ d[r].id = NoId
        /\ device # <<>>


\* ------------------------------------------- claims about two invocations
\* C13: two update invocations that resolved the same inventory for the
\* same request take the same branch at the version gate, whatever id,
\* task_uri or update_recovery_set their resources held at entry.
C13_SameInventorySameDecision ==
    \A a, b \in Resources :
        (Updating(a) /\ Updating(b) /\ Gated(a) /\ Gated(b)
           /\ fr[a].firmwares = fr[b].firmwares) =>
            /\ UploadAttempted(a) = UploadAttempted(b)
            /\ fr[a].firmware = fr[b].firmware

C13_Witness ==
    \E a, b \in Resources :
        /\ Updating(a) /\ Updating(b) /\ Gated(a) /\ Gated(b)
        /\ fr[a].firmwares = fr[b].firmwares /\ fr[a].firmwares # <<>>
        /\ fr[a].idAtStart # fr[b].idAtStart
        /\ UploadAttempted(a) /\ UploadAttempted(b)

\* The outcomes two logs have in common agree.
SameOutcomes(la, lb) ==
    \A i \in 1..Min({Len(la), Len(lb)}) : la[i].ok = lb[i].ok

\* Both invocations have returned, and the device behaved the same way
\* towards both: the same listing, the same records, the same outcome of
\* every step both took, the same answer where both built or posted.
SameBehaviour(a, b) ==
    /\ Updating(a) /\ Updating(b) /\ Returned(a) /\ Returned(b)
    /\ fr[a].links = fr[b].links /\ fr[a].firmwares = fr[b].firmwares
    /\ SameOutcomes(fr[a].log, fr[b].log)
    /\ fr[a].built = "none" \/ fr[b].built = "none" \/ fr[a].built = fr[b].built
    /\ fr[a].status = "none" \/ fr[b].status = "none"
           \/ (fr[a].status = fr[b].status /\ fr[a].task = fr[b].task)

InFlight(r) == \E u \in pending : u.by = r

\* C16: with the invocations serialized and every one begun when no upload
\* is pending, the device never holds two uploads, and an invocation begun
\* after an upload succeeded and was applied, which resolves every member,
\* issues no POST; an upload in flight comes from an invocation that passed
\* its own gate, whatever the other invocation did.
C16_SerializedNoConflict ==
    /\ (serial /\ \A r \in Resources : Updating(r) => fr[r].quiet) =>
           /\ Cardinality(pending) <= 1
           /\ \A r \in Resources :
                  (Updating(r) /\ fr[r].settled /\ Gated(r) /\ ResolvedAll(r)) =>
                      (~UploadAttempted(r) /\ Posts(r) = 0)
    /\ \A r \in Resources :
           InFlight(r) => (Gated(r) /\ UploadAttempted(r) /\ fr[r].status = "2xx")

\* Two uploads for the same target in flight, posted by two interleaved
\* invocations that both passed the gate.
C16_Witness ==
    /\ ~serial
    /\ \A r \in Resources :
           /\ Updating(r) /\ Gated(r) /\ UploadAttempted(r)
           /\ Posts(r) = 1 /\ InFlight(r)
    /\ Cardinality(pending) = 2
    /\ \A u \in pending : u.name = request.name /\ u.version = request.version

====
